---- MODULE Spec2Model ----
(***************************************************************************)
(* Model of tfx/orchestration/portable/mlmd/artifact_lib.py: the two       *)
(* portable operations get_artifacts_by_ids and update_artifacts, run      *)
(* against a metadata store that keeps one artifact record per identifier. *)
(***************************************************************************)
EXTENDS Integers, Sequences, FiniteSets

(* ------------------------------ bounds --------------------------------- *)
\* Artifact identifiers are 1..MaxId; the caller holds one in-memory artifact
\* per identifier.
MaxId == 3
\* Longest identifier sequence handed to get_artifacts_by_ids.
MaxIds == 2
\* Most keys of an artifact multi-map.
MaxKeys == 2
\* Most artifacts of an artifact multi-map, over all its keys.
MaxArtifacts == 2

Ids == 1..MaxId
Objs == 1..MaxId

(* --------------------------- value domains ----------------------------- *)
\* Artifact states an artifact can carry.
States == {"pending", "published"}
\* Optional[str]: None is the empty tuple, a supplied string s is <<s>>.
None == <<>>
Some(s) == <<s>>
NewStates == {None} \cup {Some(s) : s \in States \cup {""}}
\* Mutant of Truthy: the test `is not None`, under which "" counts as supplied.
IsNotNone(o) == o # None
\* Python truthiness of an Optional[str]: None and "" are falsy.
Truthy(o) == o # None /\ o[1] # ""

\* The type definitions registered in the store.
ArtifactTypes == {[id |-> 10, name |-> "Examples"], [id |-> 11, name |-> "Model"]}
TypeIdOf(i) == 10 + (i % 2)

\* An artifact record; has_id is the presence bit of the optional id field,
\* type is the type name, which the store leaves empty on read.
MlmdArtifact(hasId, i, tid, tname, st) ==
  [has_id |-> hasId, id |-> i, type_id |-> tid, type |-> tname, state |-> st]
HasField_id(rec) == rec.has_id

(* ------------------------- sequence helpers ---------------------------- *)
SeqsUpTo(S, n) == UNION {[1..k -> S] : k \in 0..n}
Range(s) == {s[i] : i \in DOMAIN s}
\* Every ordering of a finite set, as sequences without repetition.
Orderings(S) ==
  {s \in [1..Cardinality(S) -> S] : \A i, j \in DOMAIN s : s[i] = s[j] => i = j}
Count(s, x) == Cardinality({i \in DOMAIN s : s[i] = x})

(* ------------------------ the metadata store --------------------------- *)
\* store maps each persisted identifier to what is persisted for it.
\* get_artifacts_and_types_by_artifact_ids: one record per distinct requested
\* identifier that exists, in an order the store chooses, with the distinct
\* type definitions those records refer to.
StoredIds(st, artifact_ids) == Range(artifact_ids) \cap DOMAIN st
StoredRecord(st, i) == MlmdArtifact(TRUE, i, st[i].type_id, "", st[i].state)
RECURSIVE TypesById(_)
TypesById(S) ==
  IF S = {} THEN <<>>
  ELSE LET t == CHOOSE x \in S : \A y \in S : x.id <= y.id
       IN  <<t>> \o TypesById(S \ {t})
TypesOf(recs) ==
  TypesById({t \in ArtifactTypes : \E k \in DOMAIN recs : recs[k].type_id = t.id})
StoreReplies(st, artifact_ids) ==
  {[mlmd_artifacts |-> [k \in DOMAIN ord |-> StoredRecord(st, ord[k])],
    artifact_types |-> TypesOf([k \in DOMAIN ord |-> StoredRecord(st, ord[k])])]
     : ord \in Orderings(StoredIds(st, artifact_ids))}

\* put_artifacts: every record is persisted under its identifier, a later
\* record of the batch replacing an earlier one with the same identifier; a
\* record without an identifier is created under the next free identifier.
Persisted(rec) == [type_id |-> rec.type_id, state |-> rec.state]
NextFreeId(st) ==
  IF DOMAIN st = {} THEN 1 ELSE 1 + (CHOOSE i \in DOMAIN st : \A j \in DOMAIN st : j <= i)
RECURSIVE PutArtifacts(_, _)
PutArtifacts(st, batch) ==
  IF batch = <<>> THEN st
  ELSE LET rec == Head(batch)
           i == IF HasField_id(rec) THEN rec.id ELSE NextFreeId(st)
       IN  PutArtifacts([j \in DOMAIN st \cup {i} |-> IF j = i THEN Persisted(rec) ELSE st[j]],
                        Tail(batch))

\* One call made on the store client: the method and its argument.
StoreCall(m, a) == [method |-> m, arg |-> a]
ReadCalls(calls) == {k \in DOMAIN calls : calls[k].method = "get_artifacts_and_types_by_artifact_ids"}
WriteCalls(calls) == {k \in DOMAIN calls : calls[k].method = "put_artifacts"}
RECURSIVE ApplyCalls(_, _)
ApplyCalls(st, calls) ==
  IF calls = <<>> THEN st
  ELSE ApplyCalls(IF Head(calls).method = "put_artifacts"
                    THEN PutArtifacts(st, Head(calls).arg) ELSE st,
                  Tail(calls))

(* ------------------------- typed artifacts ----------------------------- *)
\* artifact_utils.deserialize_artifact: the typed artifact wraps the record
\* and carries the type definition it was given.
deserialize_artifact(artifact_type, mlmd_artifact) ==
  [type_name |-> artifact_type.name, mlmd_artifact |-> mlmd_artifact]
\* types.Artifact.state setter: the state lives in the wrapped record.
SetState(tfx_artifact, st) ==
  [tfx_artifact EXCEPT !.mlmd_artifact.state = st]

\* What a call ends in: the exception raised ("" for a normal return), its
\* message and the identifiers it names, and the value returned.
Returned(v) == [raised |-> "", message |-> "", ids |-> <<>>, returned |-> v]
Raised(kind, msg, ids) == [raised |-> kind, message |-> msg, ids |-> ids, returned |-> <<>>]
MsgNotFound == "Could not find all MLMD artifacts for ids"
MsgNoId == "Artifact must have an MLMD ID in order to be updated."

(* ----------------------- get_artifacts_by_ids -------------------------- *)
\* {a.id: a for a in artifact_types}: a later definition replaces an earlier
\* one with the same identifier.
artifact_types_by_id(artifact_types) ==
  [tid \in {artifact_types[k].id : k \in DOMAIN artifact_types} |->
     artifact_types[CHOOSE k \in DOMAIN artifact_types :
        /\ artifact_types[k].id = tid
        /\ \A m \in DOMAIN artifact_types : artifact_types[m].id = tid => m <= k]]

\* Lines 56-65: name each record's type, then deserialize each record.
SetType(by_id, mlmd_artifact) ==
  [mlmd_artifact EXCEPT !.type = by_id[mlmd_artifact.type_id].name]
\* Mutant of Deserialized: every record is typed by the first record's type.
DeserializedByFirstType(by_id, mlmd_artifacts) ==
  [k \in DOMAIN mlmd_artifacts |->
     deserialize_artifact(by_id[mlmd_artifacts[1].type_id],
       [mlmd_artifacts[k] EXCEPT !.type = by_id[mlmd_artifacts[1].type_id].name])]
Deserialized(by_id, mlmd_artifacts) ==
  [k \in DOMAIN mlmd_artifacts |->
     deserialize_artifact(by_id[mlmd_artifacts[k].type_id], SetType(by_id, mlmd_artifacts[k]))]

\* Mutant of get_artifacts_by_ids: the count of records is not compared with
\* the count of identifiers, so a partial reply is deserialized and returned.
get_artifacts_by_ids_unchecked(artifact_ids, reply) ==
  LET calls == <<StoreCall("get_artifacts_and_types_by_artifact_ids", artifact_ids)>>
      by_id == artifact_types_by_id(reply.artifact_types)
  IN  [outcome |-> Returned(Deserialized(by_id, reply.mlmd_artifacts)), store_calls |-> calls]
\* Mutant of get_artifacts_by_ids: the records, once their type is named, are
\* written back to the store.
get_artifacts_by_ids_writing_back(artifact_ids, reply) ==
  LET calls == <<StoreCall("get_artifacts_and_types_by_artifact_ids", artifact_ids)>>
      by_id == artifact_types_by_id(reply.artifact_types)
      named == [k \in DOMAIN reply.mlmd_artifacts |-> SetType(by_id, reply.mlmd_artifacts[k])]
  IN  IF Len(artifact_ids) # Len(reply.mlmd_artifacts)
        THEN [outcome |-> Raised("ValueError", MsgNotFound, artifact_ids), store_calls |-> calls]
      ELSE [outcome |-> Returned(Deserialized(by_id, reply.mlmd_artifacts)),
            store_calls |-> Append(calls, StoreCall("put_artifacts", named))]

get_artifacts_by_ids(artifact_ids, reply) ==
  LET calls == <<StoreCall("get_artifacts_and_types_by_artifact_ids", artifact_ids)>>
      by_id == artifact_types_by_id(reply.artifact_types)
  IN  IF Len(artifact_ids) # Len(reply.mlmd_artifacts)
        THEN [outcome |-> Raised("ValueError", MsgNotFound, artifact_ids), store_calls |-> calls]
      ELSE IF \E k \in DOMAIN reply.mlmd_artifacts : reply.mlmd_artifacts[k].type_id \notin DOMAIN by_id
        THEN [outcome |-> Raised("KeyError", "", <<>>), store_calls |-> calls]
      ELSE [outcome |-> Returned(Deserialized(by_id, reply.mlmd_artifacts)), store_calls |-> calls]

(* ------------------------- update_artifacts ---------------------------- *)
\* itertools.chain.from_iterable(tfx_artifact_map.values()): the values of the
\* map one after the other, in the map's key order. A map is the sequence of
\* its values in key order; an artifact is named by its place among the
\* caller's in-memory artifacts.
\* Mutant of chain_from_iterable: the values are chained last key first.
RECURSIVE chain_reversed(_)
chain_reversed(values) ==
  IF values = <<>> THEN <<>> ELSE chain_reversed(Tail(values)) \o Head(values)
RECURSIVE chain_from_iterable(_)
chain_from_iterable(values) ==
  IF values = <<>> THEN <<>> ELSE Head(values) \o chain_from_iterable(Tail(values))

\* Lines 83-88, one artifact per step: arts are the caller's artifacts as
\* mutated so far, to_update the artifacts whose records were appended.
\* Mutant of UpdateLoop: an artifact without an identifier is skipped.
RECURSIVE UpdateLoopSkipping(_, _, _, _)
UpdateLoopSkipping(arts, rest, new_artifact_state, to_update) ==
  IF rest = <<>> THEN [raised |-> FALSE, arts |-> arts, to_update |-> to_update]
  ELSE IF ~HasField_id(arts[Head(rest)].mlmd_artifact)
    THEN UpdateLoopSkipping(arts, Tail(rest), new_artifact_state, to_update)
  ELSE UpdateLoopSkipping(IF Truthy(new_artifact_state)
                            THEN [arts EXCEPT ![Head(rest)] = SetState(@, new_artifact_state[1])]
                            ELSE arts,
                          Tail(rest), new_artifact_state, Append(to_update, Head(rest)))
\* Mutant of UpdateLoop: the new state is set before the identifier is looked at.
RECURSIVE UpdateLoopSettingFirst(_, _, _, _)
UpdateLoopSettingFirst(arts, rest, new_artifact_state, to_update) ==
  IF rest = <<>> THEN [raised |-> FALSE, arts |-> arts, to_update |-> to_update]
  ELSE LET set == IF Truthy(new_artifact_state)
                    THEN [arts EXCEPT ![Head(rest)] = SetState(@, new_artifact_state[1])]
                    ELSE arts
       IN  IF ~HasField_id(arts[Head(rest)].mlmd_artifact)
             THEN [raised |-> TRUE, arts |-> set, to_update |-> to_update]
           ELSE UpdateLoopSettingFirst(set, Tail(rest), new_artifact_state,
                                       Append(to_update, Head(rest)))
\* Mutant of UpdateLoop: the new state is set on the first artifact only.
RECURSIVE UpdateLoopFirstOnly(_, _, _, _)
UpdateLoopFirstOnly(arts, rest, new_artifact_state, to_update) ==
  IF rest = <<>> THEN [raised |-> FALSE, arts |-> arts, to_update |-> to_update]
  ELSE IF ~HasField_id(arts[Head(rest)].mlmd_artifact)
    THEN [raised |-> TRUE, arts |-> arts, to_update |-> to_update]
  ELSE UpdateLoopFirstOnly(IF Truthy(new_artifact_state) /\ to_update = <<>>
                             THEN [arts EXCEPT ![Head(rest)] = SetState(@, new_artifact_state[1])]
                             ELSE arts,
                           Tail(rest), new_artifact_state, Append(to_update, Head(rest)))
RECURSIVE UpdateLoop(_, _, _, _)
UpdateLoop(arts, rest, new_artifact_state, to_update) ==
  IF rest = <<>> THEN [raised |-> FALSE, arts |-> arts, to_update |-> to_update]
  ELSE IF ~HasField_id(arts[Head(rest)].mlmd_artifact)
    THEN [raised |-> TRUE, arts |-> arts, to_update |-> to_update]
  ELSE UpdateLoop(IF Truthy(new_artifact_state)
                    THEN [arts EXCEPT ![Head(rest)] = SetState(@, new_artifact_state[1])]
                    ELSE arts,
                  Tail(rest), new_artifact_state, Append(to_update, Head(rest)))

\* Mutant of update_artifacts: put_artifacts is called whether or not any
\* record was collected.
update_artifacts_unguarded(arts, tfx_artifact_map, new_artifact_state) ==
  LET r == UpdateLoop(arts, chain_from_iterable(tfx_artifact_map), new_artifact_state, <<>>)
      mlmd_artifacts_to_update == [k \in DOMAIN r.to_update |-> r.arts[r.to_update[k]].mlmd_artifact]
  IN  IF r.raised
        THEN [outcome |-> Raised("ValueError", MsgNoId, <<>>), arts |-> r.arts, store_calls |-> <<>>]
      ELSE [outcome |-> Returned(<<>>), arts |-> r.arts,
            store_calls |-> <<StoreCall("put_artifacts", mlmd_artifacts_to_update)>>]

\* mlmd_artifacts_to_update holds the records themselves, so the store is
\* handed each record as it is when put_artifacts is called.
update_artifacts(arts, tfx_artifact_map, new_artifact_state) ==
  LET r == UpdateLoop(arts, chain_from_iterable(tfx_artifact_map), new_artifact_state, <<>>)
      mlmd_artifacts_to_update == [k \in DOMAIN r.to_update |-> r.arts[r.to_update[k]].mlmd_artifact]
  IN  IF r.raised
        THEN [outcome |-> Raised("ValueError", MsgNoId, <<>>), arts |-> r.arts, store_calls |-> <<>>]
      ELSE [outcome |-> Returned(<<>>), arts |-> r.arts,
            store_calls |-> IF mlmd_artifacts_to_update # <<>>
                              THEN <<StoreCall("put_artifacts", mlmd_artifacts_to_update)>>
                              ELSE <<>>]

(* --------------------------- state machine ----------------------------- *)
VARIABLES
  store,               \* the records persisted in the metadata store
  artifacts,           \* the caller's in-memory typed artifacts
  op,                  \* the operation called last
  artifact_ids,        \* get_artifacts_by_ids: the identifiers requested
  reply,               \* get_artifacts_by_ids: what the store returned
  tfx_artifact_map,    \* update_artifacts: the multi-map passed
  new_artifact_state,  \* update_artifacts: the optional new state passed
  outcome,             \* how the call ended
  store_calls,         \* the calls the operation made on the store client
  store_before,        \* store when the call started
  artifacts_before     \* artifacts when the call started

vars == <<store, artifacts, op, artifact_ids, reply, tfx_artifact_map,
          new_artifact_state, outcome, store_calls, store_before, artifacts_before>>

TypeNameOf(tid) == (CHOOSE t \in ArtifactTypes : t.id = tid).name
NoReply == [mlmd_artifacts |-> <<>>, artifact_types |-> <<>>]

\* Between calls no call is on record.
NoCall ==
  /\ op = "idle"
  /\ artifact_ids = <<>>
  /\ reply = NoReply
  /\ tfx_artifact_map = <<>>
  /\ new_artifact_state = None
  /\ outcome = Returned(<<>>)
  /\ store_calls = <<>>
  /\ store_before = store
  /\ artifacts_before = artifacts

\* The store holds artifacts 1..n, all pending, for some n; the caller holds a
\* typed artifact for each of them, and artifacts that were never persisted in
\* the places above n.
InitialArtifact(o, n) ==
  deserialize_artifact([id |-> TypeIdOf(o), name |-> TypeNameOf(TypeIdOf(o))],
    MlmdArtifact(o <= n, IF o <= n THEN o ELSE 0, TypeIdOf(o),
                 TypeNameOf(TypeIdOf(o)), "pending"))
Init ==
  /\ \E n \in 0..MaxId :
       /\ store = [i \in 1..n |-> [type_id |-> TypeIdOf(i), state |-> "pending"]]
       /\ artifacts = [o \in Objs |-> InitialArtifact(o, n)]
  /\ NoCall

\* The multi-maps of at most MaxKeys keys and MaxArtifacts artifacts: a
\* flattened sequence cut into the values of the keys (ends[k] is where the
\* value of key k ends).
Cuts(n, len) ==
  {ends \in [1..n -> 0..len] :
     /\ \A k \in 1..n : k < n => ends[k] <= ends[k + 1]
     /\ IF n = 0 THEN len = 0 ELSE ends[n] = len}
MapOf(flat, ends) ==
  [k \in DOMAIN ends |-> SubSeq(flat, (IF k = 1 THEN 0 ELSE ends[k - 1]) + 1, ends[k])]
ArtifactMultiMaps ==
  {MapOf(flat, ends) : <<flat, ends>> \in
     UNION {{<<f, e>> : e \in UNION {Cuts(n, Len(f)) : n \in 0..MaxKeys}}
              : f \in SeqsUpTo(Objs, MaxArtifacts)}}

GetArtifactsByIds(ids, rep) ==
  LET r == get_artifacts_by_ids(ids, rep)
  IN  /\ op' = "get_artifacts_by_ids"
      /\ artifact_ids' = ids
      /\ reply' = rep
      /\ tfx_artifact_map' = <<>>
      /\ new_artifact_state' = None
      /\ outcome' = r.outcome
      /\ store_calls' = r.store_calls
      /\ store' = ApplyCalls(store, r.store_calls)
      /\ artifacts' = artifacts
      /\ store_before' = store
      /\ artifacts_before' = artifacts

UpdateArtifacts(m, ns) ==
  LET r == update_artifacts(artifacts, m, ns)
  IN  /\ op' = "update_artifacts"
      /\ artifact_ids' = <<>>
      /\ reply' = NoReply
      /\ tfx_artifact_map' = m
      /\ new_artifact_state' = ns
      /\ outcome' = r.outcome
      /\ store_calls' = r.store_calls
      /\ store' = ApplyCalls(store, r.store_calls)
      /\ artifacts' = r.arts
      /\ store_before' = store
      /\ artifacts_before' = artifacts

\* The caller takes the outcome of the call; the next call starts afresh.
Return ==
  /\ op # "idle"
  /\ UNCHANGED <<store, artifacts>>
  /\ op' = "idle"
  /\ artifact_ids' = <<>>
  /\ reply' = NoReply
  /\ tfx_artifact_map' = <<>>
  /\ new_artifact_state' = None
  /\ outcome' = Returned(<<>>)
  /\ store_calls' = <<>>
  /\ store_before' = store
  /\ artifacts_before' = artifacts

\* A call starts only when the caller holds no outcome of an earlier call.
Next ==
  \/ /\ op = "idle"
     /\ \E ids \in SeqsUpTo(Ids, MaxIds) : \E rep \in StoreReplies(store, ids) :
          GetArtifactsByIds(ids, rep)
  \/ /\ op = "idle"
     /\ \E m \in ArtifactMultiMaps : \E ns \in NewStates : UpdateArtifacts(m, ns)
  \/ Return

Spec == Init /\ [][Next]_vars

(* ------------------------------ properties ----------------------------- *)
\* What the last call was given, read off the call's record.
Fetched == op = "get_artifacts_by_ids"
Updated == op = "update_artifacts"
Succeeded == outcome.raised = ""
NotFound ==
  outcome.raised = "ValueError" /\ outcome.message = MsgNotFound
InvalidArgument ==
  outcome.raised = "ValueError" /\ outcome.message = MsgNoId
Reads == {k \in DOMAIN store_calls : store_calls[k].method = "get_artifacts_and_types_by_artifact_ids"}
Writes == {k \in DOMAIN store_calls : store_calls[k].method = "put_artifacts"}

\* The places of the multi-map: key k (in key order), position j under it.
Places ==
  UNION {{<<k, j>> : j \in DOMAIN tfx_artifact_map[k]} : k \in DOMAIN tfx_artifact_map}
At(p) == tfx_artifact_map[p[1]][p[2]]
RECURSIVE CountBefore(_)
CountBefore(k) == IF k <= 1 THEN 0 ELSE CountBefore(k - 1) + Len(tfx_artifact_map[k - 1])
\* The rank of a place in flattening order, and the number of places.
Rank(p) == CountBefore(p[1]) + p[2]
K == CountBefore(Len(tfx_artifact_map) + 1)
Persisted_before(p) == artifacts_before[At(p)].mlmd_artifact.has_id
AllPersisted == \A p \in Places : Persisted_before(p)
NonEmptyNewState == new_artifact_state # None /\ new_artifact_state[1] # ""
ReturnedIds == [k \in DOMAIN outcome.returned |-> outcome.returned[k].mlmd_artifact.id]

\* C1: a fetch of N identifiers that all exist in the store, duplicates
\* allowed, the store returning one record per distinct identifier, returns
\* without error N typed artifacts whose identifiers are the requested ones as
\* a multiset.
C1_RoundTrip ==
  (/\ Fetched
   /\ Range(artifact_ids) \subseteq DOMAIN store_before
   /\ Len(reply.mlmd_artifacts) = Cardinality(Range(artifact_ids)))
  => /\ Succeeded
     /\ Len(outcome.returned) = Len(artifact_ids)
     /\ \A i \in Ids : Count(ReturnedIds, i) = Count(artifact_ids, i)

\* C2: a fetch for which the store returns fewer records than identifiers
\* requested ends in the not-found error naming all requested identifiers and
\* returns nothing; a fetch that returns holds one resolved typed artifact for
\* each record the store returned.
C2_MissingId ==
  Fetched =>
    /\ Len(reply.mlmd_artifacts) < Len(artifact_ids) =>
         /\ NotFound
         /\ outcome.ids = artifact_ids
         /\ outcome.returned = <<>>
    /\ Succeeded =>
         /\ Len(outcome.returned) = Len(reply.mlmd_artifacts)
         /\ Len(outcome.returned) = Len(artifact_ids)
         /\ \A k \in DOMAIN outcome.returned :
              /\ outcome.returned[k].mlmd_artifact.id = reply.mlmd_artifacts[k].id
              /\ outcome.returned[k].type_name # ""
C2_Witness ==
  /\ Fetched
  /\ Len(reply.mlmd_artifacts) >= 1
  /\ Len(reply.mlmd_artifacts) < Len(artifact_ids)
  /\ ~(Range(artifact_ids) \subseteq DOMAIN store_before)
  /\ NotFound

\* C3: an update of a multi-map that holds an artifact without a persisted
\* identifier, at any place, with or without a new state, ends in the
\* invalid-argument error and makes no write call on the store.
C3_UpdatePrecondition ==
  (Updated /\ ~AllPersisted) =>
    /\ InvalidArgument
    /\ Writes = {}
    /\ store = store_before
C3_Witness ==
  /\ Updated
  /\ \E p, q \in Places : Rank(p) < Rank(q) /\ Persisted_before(p) /\ ~Persisted_before(q)
  /\ new_artifact_state # None
  /\ InvalidArgument

\* C4: an update with a non-empty new state of K >= 1 artifacts that all hold
\* persisted identifiers succeeds, leaves every one of them in the new state,
\* and hands the store K records in its write batch.
C4_StateOverwrite ==
  (Updated /\ NonEmptyNewState /\ K >= 1 /\ AllPersisted) =>
    /\ Succeeded
    /\ \A p \in Places : artifacts[At(p)].mlmd_artifact.state = new_artifact_state[1]
    /\ Writes = {1}
    /\ Len(store_calls) = 1
    /\ Len(store_calls[1].arg) = K
C4_Witness ==
  /\ Updated /\ NonEmptyNewState /\ AllPersisted
  /\ K = 2
  /\ \E p, q \in Places : At(p) # At(q)
  /\ \A p \in Places : artifacts_before[At(p)].mlmd_artifact.state # new_artifact_state[1]
  /\ Succeeded

\* C5: an update of a multi-map without any artifact (no key, or only keys
\* with empty values), with or without a new state, returns normally and
\* makes no write call on the store.
C5_EmptyBatch ==
  (Updated /\ K = 0) =>
    /\ Succeeded
    /\ Writes = {}
    /\ store_calls = <<>>
C5_Witness ==
  /\ Updated
  /\ Len(tfx_artifact_map) >= 1
  /\ K = 0
  /\ new_artifact_state # None
  /\ Succeeded

\* C6: in every fetch that returns, the k-th typed artifact wraps the k-th
\* record the store returned and is named after the type definition, among
\* those the store returned, whose identifier is the record's type identifier.
C6_TypeJoin ==
  (Fetched /\ Succeeded) =>
    /\ Len(outcome.returned) = Len(reply.mlmd_artifacts)
    /\ \A k \in DOMAIN outcome.returned :
         /\ \E t \in Range(reply.artifact_types) :
              /\ t.id = reply.mlmd_artifacts[k].type_id
              /\ outcome.returned[k].type_name = t.name
              /\ outcome.returned[k].mlmd_artifact.type = t.name
         /\ [outcome.returned[k].mlmd_artifact EXCEPT !.type = ""] = reply.mlmd_artifacts[k]
C6_Witness ==
  /\ Fetched /\ Succeeded
  /\ \E k, m \in DOMAIN reply.mlmd_artifacts :
       /\ k < m
       /\ reply.mlmd_artifacts[k].type_id # reply.mlmd_artifacts[m].type_id
       /\ reply.mlmd_artifacts[k].id > reply.mlmd_artifacts[m].id

\* C7: every fetch, returning or failing, makes exactly one read call and no
\* write call on the store, and leaves the persisted records as they were.
C7_ReadOnly ==
  Fetched =>
    /\ Cardinality(Reads) = 1
    /\ Writes = {}
    /\ store = store_before
C7_Witness ==
  /\ Fetched /\ Succeeded
  /\ Len(outcome.returned) >= 2
  /\ Cardinality(Reads) = 1

\* C8: an update given a new state that ends in the invalid-argument error
\* leaves the state of every artifact of the multi-map as it was, those before
\* the offending artifact included.
C8_FailedUpdateMutatesNothing ==
  (Updated /\ new_artifact_state # None /\ InvalidArgument) =>
    \A p \in Places :
      artifacts[At(p)].mlmd_artifact.state = artifacts_before[At(p)].mlmd_artifact.state

\* C8 amended: an update given a new state that ends in the invalid-argument
\* error has written nothing to the store and has set the new state, when it
\* is not the empty string, on exactly the artifacts that come before the
\* first artifact without a persisted identifier in flattening order; every
\* other artifact of the caller is as it was.
FirstOffender ==
  CHOOSE q \in Places : ~Persisted_before(q) /\ \A r \in Places : ~Persisted_before(r) => Rank(q) <= Rank(r)
C8_FailedUpdateMutatesPrefix ==
  (Updated /\ new_artifact_state # None /\ InvalidArgument) =>
    /\ ~AllPersisted
    /\ Writes = {}
    /\ \A o \in Objs :
         artifacts[o] =
           IF NonEmptyNewState /\ \E p \in Places : At(p) = o /\ Rank(p) < Rank(FirstOffender)
             THEN [artifacts_before[o] EXCEPT !.mlmd_artifact.state = new_artifact_state[1]]
             ELSE artifacts_before[o]
C8_Witness ==
  /\ Updated /\ NonEmptyNewState /\ InvalidArgument
  /\ \E p \in Places :
       /\ Rank(p) < Rank(FirstOffender)
       /\ artifacts_before[At(p)].mlmd_artifact.state # new_artifact_state[1]
       /\ artifacts[At(p)].mlmd_artifact.state = new_artifact_state[1]
  /\ artifacts[At(FirstOffender)] = artifacts_before[At(FirstOffender)]

\* C9 as stated: for every supplied new state, the empty string included, an
\* update of persisted artifacts leaves each in the supplied state and hands
\* the store records that carry it; without a new state nothing changes.
C9_SuppliedIncludingEmpty ==
  (Updated /\ AllPersisted) =>
    /\ new_artifact_state # None =>
         /\ \A p \in Places : artifacts[At(p)].mlmd_artifact.state = new_artifact_state[1]
         /\ \A w \in Writes : \A k \in DOMAIN store_calls[w].arg :
              store_calls[w].arg[k].state = new_artifact_state[1]
    /\ new_artifact_state = None =>
         /\ artifacts = artifacts_before
         /\ \A p \in Places : \A w \in Writes :
              store_calls[w].arg[Rank(p)] = artifacts_before[At(p)].mlmd_artifact

\* C9 amended: for every supplied non-empty new state an update of persisted
\* artifacts leaves each in the supplied state and hands the store records that
\* carry it; when the new state is absent or the empty string, every artifact
\* is unchanged and the records are persisted as they were.
C9_SuppliedNonEmpty ==
  (Updated /\ AllPersisted) =>
    /\ NonEmptyNewState =>
         /\ \A p \in Places : artifacts[At(p)].mlmd_artifact.state = new_artifact_state[1]
         /\ \A w \in Writes : \A k \in DOMAIN store_calls[w].arg :
              store_calls[w].arg[k].state = new_artifact_state[1]
    /\ ~NonEmptyNewState =>
         /\ artifacts = artifacts_before
         /\ \A p \in Places : \A w \in Writes :
              store_calls[w].arg[Rank(p)] = artifacts_before[At(p)].mlmd_artifact
C9_Witness ==
  /\ Updated /\ AllPersisted
  /\ new_artifact_state = Some("")
  /\ K >= 1
  /\ Writes = {1}
  /\ \A p \in Places : artifacts[At(p)].mlmd_artifact.state = "published"

\* C10: an update of K >= 1 artifacts that all hold persisted identifiers
\* makes exactly one write call, whose argument is the artifacts' records in
\* flattening order (key order, then order under the key), none dropped,
\* merged or moved.
C10_SingleOrderedBatch ==
  (Updated /\ K >= 1 /\ AllPersisted) =>
    /\ Len(store_calls) = 1
    /\ store_calls[1].method = "put_artifacts"
    /\ Len(store_calls[1].arg) = K
    /\ \A p \in Places : store_calls[1].arg[Rank(p)] = artifacts[At(p)].mlmd_artifact
C10_Witness ==
  /\ Updated /\ AllPersisted
  /\ Len(tfx_artifact_map) = 2
  /\ \A k \in DOMAIN tfx_artifact_map : Len(tfx_artifact_map[k]) = 1
  /\ At(<<1, 1>>) > At(<<2, 1>>)
  /\ Len(store_calls) = 1

====
